---- MODULE Spec2Model ----
(***************************************************************************)
(* Model of the ESB routing/dispatch engine of src/src/esb/controller.rs:  *)
(* Endpoint, EndpointList (the registry), Controller (construction, bus    *)
(* registration, send_to, recv_poll, poll, run) and the TryService loop    *)
(* of src/src/node.rs.  The transport session, the request codec and the   *)
(* Handler are collaborators: their outcomes are nondeterministic choices. *)
(***************************************************************************)
EXTENDS Integers, Sequences, FiniteSets, TLC

\* ------------------------------------------------------------------ bounds
\* frames pending on the sessions of all buses together
MaxPending == 2
\* Controller::send_to calls made by the nodes of the relayed bus
MaxRelaySends == 2

\* ------------------------------------------------------------- value sets
None == "None"

\* B: BusId
BusId == {"b1", "b2"}

\* B::Address: ServiceAddress
Addr == {"a1", "a2", "a3"}

\* an Option<B::Address>
OptAddr == Addr \cup {None}

\* R: Request ; a request is a type tag and a payload
Request == {[type |-> 1, val |-> 7], [type |-> 2, val |-> 9]}
NoRequest == [type |-> 0, val |-> 0]

\* request.serialize(): the type tag followed by the payload
Serialize(r) == <<r.type, r.val>>

\* a decoder that makes a request of any bytes
UnmarshallLenient(bytes) ==
  IF Len(bytes) = 2 /\ \E r \in Request : r.type = bytes[1] /\ r.val = bytes[2]
  THEN [ok |-> TRUE, req |-> [type |-> bytes[1], val |-> bytes[2]]]
  ELSE [ok |-> TRUE, req |-> [type |-> 1, val |-> 7]]

\* unmarshaller.unmarshall(bytes): reads the type tag, then the payload of
\* that type; bytes of an unknown type or a wrong length do not decode
Unmarshall(bytes) ==
  IF Len(bytes) = 2 /\ \E r \in Request : r.type = bytes[1] /\ r.val = bytes[2]
  THEN [ok |-> TRUE, req |-> [type |-> bytes[1], val |-> bytes[2]]]
  ELSE [ok |-> FALSE, req |-> NoRequest]

\* the request the peers send
PeerRequest == CHOOSE r \in Request : r.type = 2

\* payloads the environment puts on the wire: every encoded request and one
\* byte string that is no request
Garbage == <<0>>
Payload == {Serialize(r) : r \in Request} \cup {Garbage}

\* a routed frame as recv_routed_message yields it
RoutedFrame == [src : Addr, dst : Addr, msg : Payload]

\* the frames the environment delivers: from either peer, to this node or to
\* a peer, carrying an encoded request or bytes that are none
Frame ==
  [src : {"a2", "a3"}, dst : {"a1", "a3"}, msg : {Serialize(PeerRequest)}]
    \cup [src : {"a2", "a3"}, dst : {"a1"}, msg : {Garbage}]

\* BusConfig { carrier, queued, router }; the routers the configurations
\* name: none, this node, a peer
BusConfig == [carrier : {"Locator", "Socket"}, queued : BOOLEAN,
              router : {None, "a1", "a2"}]

\* Error<B::Address> and Ok(()), in one shape
Ok == [kind |-> "Ok", bus |-> None, src |-> None, dst |-> None]
UnknownBusId(b) == [kind |-> "UnknownBusId", bus |-> b, src |-> None, dst |-> None]
SendError(s, d) == [kind |-> "Send", bus |-> None, src |-> s, dst |-> d]
TransportError == [kind |-> "Transport", bus |-> None, src |-> None, dst |-> None]
DecodeError == [kind |-> "Presentation", bus |-> None, src |-> None, dst |-> None]
HandlerError == [kind |-> "Handler", bus |-> None, src |-> None, dst |-> None]
IsErr(r) == r.kind # "Ok"

\* ------------------------------------------------------------------ state
VARIABLES
  identity,   \* what handler.identity() returns
  service_bus,\* bus ids of the map given to Controller::with, not yet registered
  senders,    \* EndpointList.0 : bus id -> Endpoint
  inbox,      \* per bus, the frames pending on its session, oldest first
  pc,         \* where the program is
  ready,      \* run: buses reported by poll() whose turn has not come yet
  err,        \* try_run_loop: the error run() returned, on its way to handle_err
  \* what the last step did (observation of one step, overwritten by the next)
  sent,       \* transport sends issued: [by, bus, src, hop, dst, data, ok]
  calls,      \* handler callbacks invoked: [cb, bus, src, req, err]
  reg,        \* registry calls made: [by, op, bus, src, dst, req, addr, res]
  bound,      \* session identity rebinds issued: [bus, addr, ok]
  recvd,      \* frames received: [by, bus, frame]
  ret,        \* the operation that returned in this step and its result
  panic,      \* run_or_panic: how the wrapper ended, and its message
  read_identity, \* per bus, what handler.identity() returned at its registration
  relay       \* several nodes on one bus: their registries, sessions and logs

vars == <<identity, service_bus, senders, inbox, pc, ready,
          err, sent, calls, reg, bound, recvd, ret, panic, read_identity, relay>>

\* the observation of a step that did nothing observable
NoRet == [op |-> "none", res |-> Ok, vec |-> <<>>, bus |-> None, router |-> None]
Returned(op, res) ==
  [op |-> op, res |-> res, vec |-> <<>>, bus |-> None, router |-> None]
\* add_service_bus(id, config) returned Ok
Registered(id, cfg) ==
  [op |-> "add_service_bus", res |-> Ok, vec |-> <<>>, bus |-> id, router |-> cfg.router]

\* ----------------------------------------------------- Endpoint, registry
\* a next hop that forgets the `source == router` arm
NextHopIgnoringSource(router, source, dest) ==
  IF router = None THEN dest ELSE router

\* Endpoint::send_to, the match on self.router: the next hop
NextHop(router, source, dest) ==
  IF router = None THEN dest
  ELSE IF source = router THEN dest
  ELSE router

\* a send whose error names the next hop instead of the destination
EndpointSendBlamingHop(ep, source, dest, request, tfail) ==
  LET data == Serialize(request)
      router == NextHop(ep.router, source, dest)
  IN [ep    |-> ep,
      sends |-> <<[src |-> source, hop |-> router, dst |-> dest,
                   data |-> data, ok |-> ~tfail]>>,
      res   |-> IF tfail THEN SendError(source, router) ELSE Ok]

\* Endpoint::send_to: one send_routed_message(source, next hop, dest, data);
\* tfail is the transport's outcome.  The endpoint itself is not assigned.
EndpointSend(ep, source, dest, request, tfail) ==
  LET data == Serialize(request)
      router == NextHop(ep.router, source, dest)
  IN [ep    |-> ep,
      sends |-> <<[src |-> source, hop |-> router, dst |-> dest,
                   data |-> data, ok |-> ~tfail]>>,
      res   |-> IF tfail THEN SendError(source, dest) ELSE Ok]

\* Endpoint::set_identity: one session.set_identity(identity); tfail is the
\* transport's outcome.  The endpoint itself is not assigned.
EndpointSetIdentity(ep, address, tfail) ==
  [ep    |-> ep,
   binds |-> <<[addr |-> address, ok |-> ~tfail]>>,
   res   |-> IF tfail THEN TransportError ELSE Ok]

\* what the session of bus b did, with b's name on it
OnBus(b, events) ==
  [i \in 1..Len(events) |-> [k \in DOMAIN events[i] \cup {"bus"} |->
                               IF k = "bus" THEN b ELSE events[i][k]]]

\* a registry that sends on some endpoint when the bus id is unknown
RegistrySendFallback(s, bus_id, source, dest, request, tfail) ==
  IF DOMAIN s = {}
  THEN [senders |-> s, sends |-> <<>>, res |-> UnknownBusId(bus_id)]
  ELSE LET b == IF bus_id \in DOMAIN s THEN bus_id ELSE CHOOSE x \in DOMAIN s : TRUE
           r == EndpointSend(s[b], source, dest, request, tfail)
       IN [senders |-> [s EXCEPT ![b] = r.ep], sends |-> OnBus(b, r.sends),
           res |-> r.res]

\* EndpointList::send_to
RegistrySend(s, bus_id, source, dest, request, tfail) ==
  IF bus_id \notin DOMAIN s
  THEN [senders |-> s, sends |-> <<>>, res |-> UnknownBusId(bus_id)]
  ELSE LET r == EndpointSend(s[bus_id], source, dest, request, tfail)
       IN [senders |-> [s EXCEPT ![bus_id] = r.ep], sends |-> OnBus(bus_id, r.sends),
           res |-> r.res]

\* EndpointList::set_identity
RegistrySetIdentity(s, bus_id, address, tfail) ==
  IF bus_id \notin DOMAIN s
  THEN [senders |-> s, binds |-> <<>>, res |-> UnknownBusId(bus_id)]
  ELSE LET r == EndpointSetIdentity(s[bus_id], address, tfail)
       IN [senders |-> [s EXCEPT ![bus_id] = r.ep], binds |-> OnBus(bus_id, r.binds),
           res |-> r.res]

\* a call on the registry: none, send_to or set_identity, with the outcome
\* the transport will give it
NoCall == [op |-> "none", bus |-> None, src |-> None, dst |-> None,
           req |-> NoRequest, addr |-> None, tfail |-> FALSE]
SendCall(b, s, d, r, f) == [op |-> "send_to", bus |-> b, src |-> s, dst |-> d,
                            req |-> r, addr |-> None, tfail |-> f]
IdentityCall(b, a, f) == [op |-> "set_identity", bus |-> b, src |-> None, dst |-> None,
                          req |-> NoRequest, addr |-> a, tfail |-> f]

\* transport sends, tagged with the caller (Controller::send_to, run's
\* forward branch, or a handler callback)
Tagged(by, sends) ==
  [i \in 1..Len(sends) |->
     [by |-> by, bus |-> sends[i].bus, src |-> sends[i].src, hop |-> sends[i].hop,
      dst |-> sends[i].dst, data |-> sends[i].data, ok |-> sends[i].ok]]

RegRecord(by, c, res) ==
  [by |-> by, op |-> c.op, bus |-> c.bus, src |-> c.src, dst |-> c.dst,
   req |-> c.req, addr |-> c.addr, res |-> res]

\* the effect of one registry call c made by `by` on registry s
ApplyCall(s, c, by) ==
  IF c.op = "send_to"
  THEN LET r == RegistrySend(s, c.bus, c.src, c.dst, c.req, c.tfail)
       IN [senders |-> r.senders, sent |-> Tagged(by, r.sends), bound |-> <<>>,
           reg |-> <<RegRecord(by, c, r.res)>>, res |-> r.res]
  ELSE IF c.op = "set_identity"
  THEN LET r == RegistrySetIdentity(s, c.bus, c.addr, c.tfail)
       IN [senders |-> r.senders, sent |-> <<>>, bound |-> r.binds,
           reg |-> <<RegRecord(by, c, r.res)>>, res |-> r.res]
  ELSE [senders |-> s, sent |-> <<>>, bound |-> <<>>, reg |-> <<>>, res |-> Ok]

\* ------------------------------------------------------------- the Handler
\* What a callback does with its &mut EndpointList: nothing, one send_to or
\* one set_identity, on any bus id, registered or not.
HandlerRequest == CHOOSE r \in Request : r.type = 1
HandlerCalls ==
  {NoCall}
    \cup {SendCall(b, "a2", "a3", HandlerRequest, f) : b \in BusId, f \in BOOLEAN}
    \cup {IdentityCall(b, "a2", FALSE) : b \in BusId}

CallRecord(cb, bus_id, source, request, error) ==
  [cb |-> cb, bus |-> bus_id, src |-> source, req |-> request, err |-> error]

\* -------------------------------------------------- Controller: registration
\* a registration that stores the configured router as it is
EffectiveRouterVerbatim(router, id) == router

\* add_service_bus, the match on config.router: the router the endpoint stores
EffectiveRouter(router, id) ==
  IF router # None /\ router = id THEN None ELSE router

\* add_service_bus: Endpoint { session, router }
NewEndpoint(cfg, id) == [router |-> EffectiveRouter(cfg.router, id)]

\* add_service_bus can fail where it uses `?`: creating a Locator session,
\* and set_router_mandatory when the bus is not queued
CanFail(cfg) == cfg.carrier = "Locator" \/ ~cfg.queued

\* self.senders.0.insert(id, endpoint)
Insert(s, id, ep) ==
  [b \in DOMAIN s \cup {id} |-> IF b = id THEN ep ELSE s[b]]

\* run_or_panic has not ended
NoPanic == [outcome |-> "none", service |-> None, text |-> None, err |-> Ok]

\* the nodes of the bus are not modelled
NoRelay == [router |-> None]

NoObservation ==
  /\ sent' = <<>>
  /\ calls' = <<>>
  /\ reg' = <<>>
  /\ bound' = <<>>
  /\ recvd' = <<>>

Init ==
  /\ identity = "a1"
  /\ service_bus \in SUBSET BusId
  /\ senders = [b \in {} |-> None]
  /\ inbox = [b \in BusId |-> <<>>]
  /\ pc = "with"
  /\ ready = {}
  /\ err = Ok
  /\ sent = <<>>
  /\ calls = <<>>
  /\ reg = <<>>
  /\ bound = <<>>
  /\ recvd = <<>>
  /\ ret = NoRet
  /\ panic = NoPanic
  /\ read_identity = [b \in {} |-> None]
  /\ relay = NoRelay

\* a constructor that goes on to the next bus after a failed registration
WithAfterRegisterGoingOn(result) == "with"

\* Controller::with, the `?` on add_service_bus: an error returns from with,
\* success goes on with the loop
WithAfterRegister(result) == IF IsErr(result) THEN "with_failed" ELSE "with"

\* Controller::with, one turn of `for (id, config) in service_bus`:
\* add_service_bus(id, config)?
WithRegister(id, cfg, fail) ==
  /\ pc = "with"
  /\ id \in service_bus
  /\ fail => CanFail(cfg)
  /\ IF fail
     THEN /\ pc' = WithAfterRegister(TransportError)
          /\ ret' = Returned("with", TransportError)
          /\ UNCHANGED <<service_bus, senders, read_identity>>
     ELSE /\ senders' = Insert(senders, id, NewEndpoint(cfg, identity))
          /\ read_identity' = Insert(read_identity, id, identity)
          /\ service_bus' = service_bus \ {id}
          /\ ret' = Registered(id, cfg)
          /\ pc' = WithAfterRegister(Ok)
  /\ NoObservation
  /\ UNCHANGED <<identity, panic, relay, inbox, ready, err>>

\* Controller::with, after the loop: Ok(me)
WithDone ==
  /\ pc = "with"
  /\ service_bus = {}
  /\ pc' = "built"
  /\ ret' = Returned("with", Ok)
  /\ NoObservation
  /\ UNCHANGED <<identity, read_identity, panic, relay, service_bus, senders, inbox, ready, err>>

\* Controller::add_service_bus called on a built Controller; a bus id that is
\* already a key gets a new endpoint and session
AddServiceBus(id, cfg, fail) ==
  /\ pc = "built"
  /\ fail => CanFail(cfg)
  /\ IF fail
     THEN /\ ret' = Returned("add_service_bus", TransportError)
          /\ UNCHANGED <<senders, inbox, read_identity>>
     ELSE /\ senders' = Insert(senders, id, NewEndpoint(cfg, identity))
          /\ read_identity' = Insert(read_identity, id, identity)
          /\ inbox' = [inbox EXCEPT ![id] = <<>>]
          /\ ret' = Registered(id, cfg)
  /\ pc' = "called"
  /\ NoObservation
  /\ UNCHANGED <<identity, panic, relay, service_bus, ready, err>>

\* frames pending on all sessions
RECURSIVE PendingOn(_, _)
PendingOn(ib, bs) ==
  IF bs = {} THEN 0
  ELSE LET b == CHOOSE x \in bs : TRUE IN Len(ib[b]) + PendingOn(ib, bs \ {b})
Pending(ib) == PendingOn(ib, DOMAIN ib)

\* the environment: a peer's frame reaches the session of a registered bus
Arrive(b, f) ==
  /\ pc \notin {"with_failed", "returned", "panicked"}
  /\ b \in DOMAIN senders
  /\ Pending(inbox) < MaxPending
  /\ inbox' = [inbox EXCEPT ![b] = Append(@, f)]
  /\ ret' = NoRet
  /\ NoObservation
  /\ UNCHANGED <<identity, read_identity, panic, relay, service_bus, senders, pc, ready, err>>

\* Controller::send_to: the registry's send_to with the handler's identity
\* as source
ControllerSend(bus_id, dest, request, tfail) ==
  /\ pc = "built"
  /\ LET r == ApplyCall(senders, SendCall(bus_id, identity, dest, request, tfail),
                        "send_to")
     IN /\ senders' = r.senders
        /\ sent' = r.sent
        /\ reg' = r.reg
        /\ bound' = r.bound
        /\ ret' = Returned("send_to", r.res)
  /\ calls' = <<>>
  /\ recvd' = <<>>
  /\ pc' = "called"
  /\ UNCHANGED <<identity, read_identity, panic, relay, service_bus, inbox, ready, err>>

\* the application takes the value its call returned and goes on
Continue ==
  /\ pc = "called"
  /\ pc' = "built"
  /\ ret' = NoRet
  /\ NoObservation
  /\ UNCHANGED <<identity, read_identity, panic, relay, service_bus, senders, inbox, ready, err>>

\* ------------------------------------------------------- poll and recv_poll
\* a poll that reports one ready bus only
PollReadyFirst(s, ib) ==
  LET S == {b \in DOMAIN s : ib[b] # <<>>}
  IN IF S = {} THEN {} ELSE {CHOOSE b \in S : TRUE}

\* Controller::poll: the bus ids whose poll item came back with events, that
\* is the registered buses with a frame pending; zmq::poll(items, -1) blocks
\* while there is none
PollReady(s, ib) == {b \in DOMAIN s : ib[b] # <<>>}

\* a receive that empties the session's queue
AfterReceiveAll(queue) == <<>>

\* sender.session.recv_routed_message(): the oldest pending frame is taken,
\* the others stay as they are
AfterReceive(queue) == Tail(queue)

\* the orders in which a loop may visit the buses poll() returned (the
\* registry is a HashMap: the order is arbitrary)
Orders(S) ==
  {o \in [1..Cardinality(S) -> S] : \A i, j \in 1..Cardinality(S) : o[i] = o[j] => i = j}

Received(by, b, frame) == [by |-> by, bus |-> b, frame |-> frame]

\* a recv_poll that hands over, with the error, the tuples it had collected
VecOnErrorPartial(v) == v

\* Controller::recv_poll, a `?` that fails: the local `vec` is dropped, the
\* caller gets the error alone
VecOnError(v) == <<>>

\* Controller::recv_poll, `for bus_id in self.poll()?` from its i-th turn on:
\* receive one frame, unmarshall it, push the tuple; the first `?` that fails
\* ends the call.  rfail_at: the turn whose receive fails (0: none), lost:
\* whether the transport dropped the frame it failed on.
RECURSIVE RecvPollLoop(_, _, _, _, _, _, _)
RecvPollLoop(order, i, ib, v, rc, rfail_at, lost) ==
  IF i > Len(order)
  THEN [res |-> Ok, vec |-> v, inbox |-> ib, recvd |-> rc]
  ELSE LET bus_id == order[i]
           routed_frame == Head(ib[bus_id])
           request == Unmarshall(routed_frame.msg)
           rest == [ib EXCEPT ![bus_id] = AfterReceive(@)]
       IN IF i = rfail_at
          THEN [res |-> TransportError, vec |-> VecOnError(v),
                inbox |-> IF lost THEN rest ELSE ib, recvd |-> rc]
          ELSE IF ~request.ok
          THEN [res |-> DecodeError, vec |-> VecOnError(v), inbox |-> rest,
                recvd |-> Append(rc, Received("recv_poll", bus_id, routed_frame))]
          ELSE RecvPollLoop(order, i + 1, rest,
                            Append(v, [bus |-> bus_id, src |-> routed_frame.src,
                                       req |-> request.req]),
                            Append(rc, Received("recv_poll", bus_id, routed_frame)),
                            rfail_at, lost)

\* Controller::recv_poll, called on a built Controller
RecvPoll(pfail, order, rfail_at, lost) ==
  /\ pc = "built"
  /\ IF pfail
     THEN /\ order = <<>> /\ rfail_at = 0 /\ ~lost
          /\ ret' = Returned("recv_poll", TransportError)
          /\ recvd' = <<>>
          /\ inbox' = inbox
     ELSE /\ PollReady(senders, inbox) # {}
          /\ order \in Orders(PollReady(senders, inbox))
          /\ rfail_at <= Len(order)
          /\ lost => rfail_at # 0
          /\ LET r == RecvPollLoop(order, 1, inbox, <<>>, <<>>, rfail_at, lost)
             IN /\ rfail_at # 0 => r.res = TransportError
                /\ ret' = [Returned("recv_poll", r.res) EXCEPT !.vec = r.vec]
                /\ recvd' = r.recvd
                /\ inbox' = r.inbox
  /\ sent' = <<>>
  /\ calls' = <<>>
  /\ reg' = <<>>
  /\ bound' = <<>>
  /\ pc' = "called"
  /\ UNCHANGED <<identity, read_identity, panic, relay, service_bus, senders, ready, err>>

\* --------------------------------------------------- try_run_loop and run
\* try_run_loop: `self.handler.on_ready(&mut self.senders)?`; the callback
\* makes the registry call hc and fails iff hfail
OnReady(hc, hfail) ==
  /\ pc = "built"
  /\ LET r == ApplyCall(senders, hc, "handler")
     IN /\ senders' = r.senders
        /\ sent' = r.sent
        /\ reg' = r.reg
        /\ bound' = r.bound
  /\ calls' = <<CallRecord("on_ready", None, None, NoRequest, Ok)>>
  /\ recvd' = <<>>
  /\ IF hfail
     THEN /\ pc' = "returned"
          /\ ret' = Returned("try_run_loop", HandlerError)
     ELSE /\ pc' = "poll"
          /\ ret' = Returned("on_ready", Ok)
  /\ UNCHANGED <<identity, read_identity, panic, relay, service_bus, inbox, ready, err>>

\* a loop that gives up at the first error of run()
LoopAfterRunPropagating(result) == IF IsErr(result) THEN "returned" ELSE "poll"

\* a loop that ends when a run() pass succeeds
LoopAfterRunReturningOk(result) == IF IsErr(result) THEN "handle_err" ELSE "returned"

\* try_run_loop, `match self.run()`: Ok goes round the loop, Err goes to
\* handle_err
LoopAfterRun(result) == IF IsErr(result) THEN "handle_err" ELSE "poll"

\* a loop that ignores what handle_err returns
LoopAfterHandleErrIgnoring(hfail) == "poll"

\* a loop that starts over, on_ready included, after handle_err
LoopAfterHandleErrRestarting(hfail) == IF hfail THEN "returned" ELSE "built"

\* try_run_loop, `self.handler.handle_err(&mut self.senders, err)?`: an error
\* returns from try_run_loop, success goes round the loop
LoopAfterHandleErr(hfail) == IF hfail THEN "returned" ELSE "poll"

\* run up to and including `self.poll()?`
RunBegin(pfail) ==
  /\ pc = "poll"
  /\ IF pfail
     THEN /\ ret' = Returned("run", TransportError)
          /\ err' = TransportError
          /\ pc' = LoopAfterRun(TransportError)
          /\ ready' = {}
     ELSE /\ PollReady(senders, inbox) # {}
          /\ ready' = PollReady(senders, inbox)
          /\ pc' = "drain"
          /\ ret' = Returned("poll", Ok)
          /\ err' = err
  /\ NoObservation
  /\ UNCHANGED <<identity, read_identity, panic, relay, service_bus, senders, inbox>>

\* a dispatch that takes every decoded frame for its own
DispatchAlwaysLocal(dest, id) == "local"

\* run, `if dest == self.handler.identity()`
Dispatch(dest, id) == IF dest = id THEN "local" ELSE "forward"

\* run, `for bus_id in self.poll()?`: the buses left after the turn for b
Remaining(rdy, b) == rdy \ {b}

\* run, one turn of the loop over the ready buses, and run's return after the
\* last turn or at the first `?` that fails.  rfail/lost: the receive fails
\* (and drops the frame); hc, hfail: what Handler::handle does; tfail: the
\* transport fails the forwarding send.
RunStep(b, rfail, lost, hc, hfail, tfail) ==
  /\ pc = "drain"
  /\ b \in ready
  /\ ~rfail => ~lost
  /\ IF b \notin DOMAIN senders
     THEN /\ hc = NoCall /\ ~hfail /\ ~tfail /\ ~rfail
          /\ pc' = "panicked"
          /\ ret' = NoRet
          /\ NoObservation
          /\ UNCHANGED <<senders, inbox, ready, err>>
     ELSE IF rfail
     THEN /\ hc = NoCall /\ ~hfail /\ ~tfail
          /\ inbox' = [inbox EXCEPT ![b] = IF lost THEN AfterReceive(@) ELSE @]
          /\ NoObservation
          /\ ret' = Returned("run", TransportError)
          /\ err' = TransportError
          /\ pc' = LoopAfterRun(TransportError)
          /\ ready' = Remaining(ready, b)
          /\ senders' = senders
     ELSE LET routed_frame == Head(inbox[b])
              request == Unmarshall(routed_frame.msg)
              source == routed_frame.src
              dest == routed_frame.dst
              local == Dispatch(dest, identity) = "local"
              call == IF local THEN hc
                      ELSE SendCall(b, source, dest, request.req, tfail)
              r == ApplyCall(senders, call, IF local THEN "handler" ELSE "run")
              result == IF local THEN (IF hfail THEN HandlerError ELSE Ok)
                        ELSE r.res
          IN /\ inbox' = [inbox EXCEPT ![b] = AfterReceive(@)]
             /\ recvd' = <<Received("run", b, routed_frame)>>
             /\ ready' = Remaining(ready, b)
             /\ IF ~request.ok
                THEN /\ hc = NoCall /\ ~hfail /\ ~tfail
                     /\ sent' = <<>>
                     /\ calls' = <<>>
                     /\ reg' = <<>>
                     /\ bound' = <<>>
                     /\ senders' = senders
                     /\ ret' = Returned("run", DecodeError)
                     /\ err' = DecodeError
                     /\ pc' = LoopAfterRun(DecodeError)
                ELSE /\ IF local THEN ~tfail ELSE (hc = NoCall /\ ~hfail)
                     /\ sent' = r.sent
                     /\ reg' = r.reg
                     /\ bound' = r.bound
                     /\ senders' = r.senders
                     /\ calls' = IF local
                                 THEN <<CallRecord("handle", b, source, request.req, Ok)>>
                                 ELSE <<>>
                     /\ IF IsErr(result) \/ Remaining(ready, b) = {}
                        THEN /\ ret' = Returned("run", result)
                             /\ err' = IF IsErr(result) THEN result ELSE err
                             /\ pc' = LoopAfterRun(result)
                        ELSE /\ ret' = NoRet
                             /\ err' = err
                             /\ pc' = "drain"
  /\ UNCHANGED <<identity, read_identity, panic, relay, service_bus>>

\* try_run_loop, the Err arm: `self.handler.handle_err(&mut self.senders, err)?`
\* and, when it succeeds, the next turn of `loop`
HandleErr(hc, hfail) ==
  /\ pc = "handle_err"
  /\ LET r == ApplyCall(senders, hc, "handler")
     IN /\ senders' = r.senders
        /\ sent' = r.sent
        /\ reg' = r.reg
        /\ bound' = r.bound
  /\ calls' = <<CallRecord("handle_err", None, None, NoRequest, err)>>
  /\ recvd' = <<>>
  /\ err' = Ok
  /\ pc' = LoopAfterHandleErr(hfail)
  /\ ret' = IF hfail THEN Returned("try_run_loop", HandlerError)
            ELSE Returned("handle_err", Ok)
  /\ ready' = {}
  /\ UNCHANGED <<identity, read_identity, panic, relay, service_bus, inbox>>

\* ------------------------------------------------- TryService::run_or_panic
\* the names services are run under
ServiceName == {"esb", "peerd", "routed", "channeld", "gossipd", "connectiond",
                "swapd"}

\* what a try_run_loop of some TryService may return: Ok(_) or any error
ServiceResult ==
  {Ok, TransportError, DecodeError, HandlerError}
    \cup {UnknownBusId(b) : b \in BusId}
    \cup {SendError(s, d) : s, d \in Addr}

\* a wrapper that hands a successful return back to its caller
RunOrPanicReturningOk(service_name, result) ==
  IF IsErr(result)
  THEN [outcome |-> "panic", service |-> service_name,
        text |-> "run loop has failed with", err |-> result]
  ELSE [outcome |-> "return", service |-> None, text |-> None, err |-> Ok]

\* TryService::run_or_panic, `match self.try_run_loop()`: both arms panic!,
\* with "{service_name} run loop has failed with {err}" and
\* "{service_name} has failed without reporting a error"
RunOrPanic(service_name, result) ==
  IF IsErr(result)
  THEN [outcome |-> "panic", service |-> service_name,
        text |-> "run loop has failed with", err |-> result]
  ELSE [outcome |-> "panic", service |-> service_name,
        text |-> "has failed without reporting a error", err |-> Ok]

\* run_or_panic(service_name), once the try_run_loop it called has returned
RunOrPanicStep(service_name) ==
  /\ pc = "returned"
  /\ ret.op = "try_run_loop"
  /\ panic' = RunOrPanic(service_name, ret.res)
  /\ pc' = IF panic'.outcome = "panic" THEN "panicked" ELSE "done"
  /\ ret' = NoRet
  /\ NoObservation
  /\ UNCHANGED <<identity, read_identity, relay, service_bus, senders, inbox, ready, err>>

\* the try_run_loop of some implementor of TryService returns
ServiceReturns(result) ==
  /\ pc = "service"
  /\ pc' = "returned"
  /\ ret' = Returned("try_run_loop", result)
  /\ NoObservation
  /\ UNCHANGED <<identity, read_identity, panic, relay, service_bus, senders, inbox, ready, err>>

Next ==
  \/ \E id \in BusId, cfg \in BusConfig, fail \in BOOLEAN : WithRegister(id, cfg, fail)
  \/ WithDone
  \/ \E id \in BusId, cfg \in BusConfig, fail \in BOOLEAN : AddServiceBus(id, cfg, fail)
  \/ \E b \in BusId, f \in Frame : Arrive(b, f)
  \/ \E b \in BusId, d \in Addr, r \in Request, tfail \in BOOLEAN :
       ControllerSend(b, d, r, tfail)
  \/ Continue
  \/ \E pfail \in BOOLEAN, order \in UNION {Orders(S) : S \in SUBSET BusId},
        rfail_at \in 0..Cardinality(BusId), lost \in BOOLEAN :
       RecvPoll(pfail, order, rfail_at, lost)
  \/ \E hc \in HandlerCalls, hfail \in BOOLEAN : OnReady(hc, hfail)
  \/ \E pfail \in BOOLEAN : RunBegin(pfail)
  \/ \E b \in BusId, rfail \in BOOLEAN, lost \in BOOLEAN, hc \in HandlerCalls,
        hfail \in BOOLEAN, tfail \in BOOLEAN :
       RunStep(b, rfail, lost, hc, hfail, tfail)
  \/ \E hc \in HandlerCalls, hfail \in BOOLEAN : HandleErr(hc, hfail)
  \/ \E service_name \in {"esb"} : RunOrPanicStep(service_name)

Spec == Init /\ [][Next]_vars

\* ------------------------------------------- a handler that changes identity
\* the addresses Handler::identity may return
HandlerIdentity == {"a1", "a2"}

\* Handler::identity(&self) starts returning another address: nothing in the
\* trait makes it a constant, and the Controller calls it anew each time.
\* It may change at any point of the Controller's life: between the
\* registrations of Controller::with, before a call of the application,
\* between passes, and inside a callback, that is between two turns of one
\* run() pass or before handle_err returns.  (A change between the reads of
\* one add_service_bus, lines 189 and 202, is a change before that
\* registration as far as the registry goes: the endpoint keeps the router
\* computed at 202, and the identity given to the session at 189 is the
\* session's own state.)
Rename(a) ==
  /\ pc \in {"with", "built", "poll", "drain", "handle_err"}
  /\ a # identity
  /\ identity' = a
  /\ ret' = NoRet
  /\ NoObservation
  /\ UNCHANGED <<read_identity, panic, relay, service_bus, senders, inbox, pc,
                 ready, err>>

\* a Controller built by Controller::with, used to send and then run, with
\* such a handler
IdentityNext ==
  \/ \E id \in BusId, cfg \in BusConfig, fail \in BOOLEAN : WithRegister(id, cfg, fail)
  \/ WithDone
  \/ \E b \in BusId, f \in Frame : Arrive(b, f)
  \/ \E b \in BusId, d \in Addr, r \in Request, tfail \in BOOLEAN :
       ControllerSend(b, d, r, tfail)
  \/ Continue
  \/ \E hc \in HandlerCalls, hfail \in BOOLEAN : OnReady(hc, hfail)
  \/ \E pfail \in BOOLEAN : RunBegin(pfail)
  \/ \E b \in BusId, rfail \in BOOLEAN, lost \in BOOLEAN, hc \in HandlerCalls,
        hfail \in BOOLEAN, tfail \in BOOLEAN :
       RunStep(b, rfail, lost, hc, hfail, tfail)
  \/ \E hc \in HandlerCalls, hfail \in BOOLEAN : HandleErr(hc, hfail)
  \/ \E a \in HandlerIdentity : Rename(a)

IdentitySpec == Init /\ [][IdentityNext]_vars

\* ------------------------------------ a handler that overwrites the registry
\* The callback that has just run also assigned through its
\* `&mut EndpointList<B>`: `*endpoints = EndpointList::new()` (the type and
\* its constructor are public; the map inside is not).
Overwrite ==
  /\ pc \in {"poll", "drain", "handle_err", "returned"}
  /\ calls # <<>>
  /\ senders # [b \in {} |-> None]
  /\ senders' = [b \in {} |-> None]
  /\ ret' = ret
  /\ UNCHANGED <<identity, read_identity, panic, relay, service_bus, inbox, pc,
                 ready, err, sent, calls, reg, bound, recvd>>

OverwriteNext ==
  \/ Next
  \/ Overwrite

OverwriteSpec == Init /\ [][OverwriteNext]_vars

\* ------------------------------------------ three nodes on one relayed bus
\* Every address is a node with its own Controller; each has registered the
\* one bus with the same configured router.  relay holds the router, each
\* node's registry (senders) and session queue (inbox), and the logs of the
\* transport sends and of the handle calls made so far.
RelayBus == "b1"

controller_vars == <<identity, service_bus, senders, inbox, pc, ready, err, sent,
                     calls, reg, bound, recvd, ret, panic, read_identity>>

\* node n after add_service_bus(RelayBus, BusConfig { router: Some(router) })
RelayRegistry(n, router) ==
  Insert([b \in {} |-> None], RelayBus,
         NewEndpoint([carrier |-> "Socket", queued |-> TRUE, router |-> router], n))

\* session.send_routed_message(source, route, dest, data) on one node is
\* recv_routed_message's next frame {src, dst, msg} on the node `route`
Deliver(ib, sends) ==
  IF sends = <<>> \/ ~sends[1].ok THEN ib
  ELSE [ib EXCEPT ![sends[1].hop] =
          Append(@, [src |-> sends[1].src, dst |-> sends[1].dst, msg |-> sends[1].data])]

\* the transport sends of node n, made by Controller::send_to or by run()
SentBy(n, by, sends) ==
  [i \in 1..Len(sends) |->
     [node |-> n, by |-> by, src |-> sends[i].src, hop |-> sends[i].hop,
      dst |-> sends[i].dst, data |-> sends[i].data]]

RelaySendsMade == Cardinality({i \in 1..Len(relay.sent) : relay.sent[i].by = "send_to"})

RelayInit ==
  /\ identity = None
  /\ service_bus = {}
  /\ senders = [b \in {} |-> None]
  /\ inbox = [b \in BusId |-> <<>>]
  /\ pc = "relay"
  /\ ready = {}
  /\ err = Ok
  /\ sent = <<>>
  /\ calls = <<>>
  /\ reg = <<>>
  /\ bound = <<>>
  /\ recvd = <<>>
  /\ ret = NoRet
  /\ panic = NoPanic
  /\ read_identity = [b \in {} |-> None]
  /\ \E router \in Addr :
       relay = [router  |-> router,
                senders |-> [n \in Addr |-> RelayRegistry(n, router)],
                inbox   |-> [n \in Addr |-> <<>>],
                sent    |-> <<>>,
                handled |-> <<>>]

\* node a, not the router: Controller::send_to(RelayBus, b, request)
RelaySend(a, b, request) ==
  /\ pc = "relay"
  /\ a # relay.router
  /\ b \notin {a, relay.router}
  /\ RelaySendsMade < MaxRelaySends
  /\ LET r == RegistrySend(relay.senders[a], RelayBus, a, b, request, FALSE)
     IN relay' = [relay EXCEPT !.senders[a] = r.senders,
                               !.sent = @ \o SentBy(a, "send_to", r.sends),
                               !.inbox = Deliver(@, r.sends)]
  /\ UNCHANGED controller_vars

\* node n: one turn of run() on its bus, with a handler that only takes the
\* request
RelayRun(n) ==
  /\ pc = "relay"
  /\ relay.inbox[n] # <<>>
  /\ LET routed_frame == Head(relay.inbox[n])
         request == Unmarshall(routed_frame.msg)
         source == routed_frame.src
         dest == routed_frame.dst
         rest == [relay.inbox EXCEPT ![n] = AfterReceive(@)]
     IN IF ~request.ok
        THEN relay' = [relay EXCEPT !.inbox = rest]
        ELSE IF Dispatch(dest, n) = "local"
        THEN relay' = [relay EXCEPT
                         !.inbox = rest,
                         !.handled = Append(@, [node |-> n, bus |-> RelayBus,
                                                src |-> source, req |-> request.req])]
        ELSE LET r == RegistrySend(relay.senders[n], RelayBus, source, dest,
                                   request.req, FALSE)
             IN relay' = [relay EXCEPT !.senders[n] = r.senders,
                                       !.sent = @ \o SentBy(n, "run", r.sends),
                                       !.inbox = Deliver(rest, r.sends)]
  /\ UNCHANGED controller_vars

RelayNext ==
  \/ \E a, b \in Addr, request \in Request : RelaySend(a, b, request)
  \/ \E n \in Addr : RelayRun(n)

\* every node's try_run_loop keeps polling: a frame pending on a node's
\* session is received by that node's run() sooner or later
RelaySpec ==
  /\ RelayInit
  /\ [][RelayNext]_vars
  /\ \A n \in Addr : WF_vars(RelayRun(n))

\* run_or_panic over any TryService: a service whose try_run_loop returns
\* whatever it likes, run under any name
ServiceInit ==
  /\ identity = None
  /\ service_bus = {}
  /\ senders = [b \in {} |-> None]
  /\ inbox = [b \in BusId |-> <<>>]
  /\ pc = "service"
  /\ ready = {}
  /\ err = Ok
  /\ sent = <<>>
  /\ calls = <<>>
  /\ reg = <<>>
  /\ bound = <<>>
  /\ recvd = <<>>
  /\ ret = NoRet
  /\ panic = NoPanic
  /\ read_identity = [b \in {} |-> None]
  /\ relay = NoRelay

ServiceNext ==
  \/ \E result \in ServiceResult : ServiceReturns(result)
  \/ \E service_name \in ServiceName : RunOrPanicStep(service_name)

ServiceSpec == ServiceInit /\ [][ServiceNext]_vars

\* ------------------------------------------------------------------ claims
\* the registry calls of the last step that reached an endpoint's send_to
EndpointSends == {i \in 1..Len(reg) : reg[i].op = "send_to" /\ reg[i].bus \in DOMAIN senders}

\* C1: every Endpoint.send issues exactly one transport send; its next hop is
\* the destination when the endpoint has no router or when the source is the
\* router, and the router otherwise; the source and the final destination on
\* the wire are the caller's.
C1_NextHopRule ==
  \A i \in EndpointSends :
    LET c == reg[i]
        router == senders[c.bus].router
    IN /\ Len(sent) = 1
       /\ sent[1].bus = c.bus
       /\ sent[1].src = c.src
       /\ sent[1].dst = c.dst
       /\ router = None => sent[1].hop = c.dst
       /\ (router # None /\ c.src = router) => sent[1].hop = c.dst
       /\ (router # None /\ c.src # router) => sent[1].hop = router

\* a send whose source is the endpoint's router went straight to a
\* destination that is not the router
C1_Witness ==
  /\ EndpointSends # {}
  /\ Len(sent) = 1
  /\ senders[sent[1].bus].router = sent[1].src
  /\ sent[1].hop = sent[1].dst
  /\ sent[1].dst # sent[1].src

\* C2: no registered endpoint stores the handler's identity as its router: a
\* registration with router == identity stores none, any other router is
\* stored as configured; so a Controller.send goes to the destination on a
\* bus that stores no router and to the stored (foreign) router otherwise.
C2_SelfRouterCollapse ==
  /\ \A b \in DOMAIN senders : senders[b].router # identity
  /\ (ret.op = "add_service_bus" /\ ret.res = Ok) =>
       /\ ret.bus \in DOMAIN senders
       /\ ret.router = identity => senders[ret.bus].router = None
       /\ ret.router # identity => senders[ret.bus].router = ret.router
  /\ \A i \in 1..Len(sent) :
       sent[i].by = "send_to" =>
         /\ sent[i].src = identity
         /\ senders[sent[i].bus].router = None => sent[i].hop = sent[i].dst
         /\ senders[sent[i].bus].router # None =>
              sent[i].hop = senders[sent[i].bus].router

\* a bus was registered with the handler's identity as router and stores none
C2_Witness ==
  /\ ret.op = "add_service_bus"
  /\ ret.res = Ok
  /\ ret.router = identity
  /\ senders[ret.bus].router = None

\* C3: a frame run() received and decoded is either handled or forwarded: to
\* the handler's identity, handle is called once with (bus, source, request)
\* and run issues no send; to anyone else, handle is not called and run
\* issues one send on the same bus with the frame's source, destination and
\* request.
C3_DispatchOrForward ==
  \A k \in 1..Len(recvd) :
    (recvd[k].by = "run" /\ Unmarshall(recvd[k].frame.msg).ok) =>
      LET f == recvd[k].frame
          request == Unmarshall(f.msg).req
          handles == {i \in 1..Len(calls) : calls[i].cb = "handle"}
          forwards == {i \in 1..Len(reg) : reg[i].by = "run"}
          wire == {i \in 1..Len(sent) : sent[i].by = "run"}
      IN IF f.dst = identity
         THEN /\ Cardinality(handles) = 1
              /\ \A i \in handles :
                   calls[i] = CallRecord("handle", recvd[k].bus, f.src, request, Ok)
              /\ forwards = {}
              /\ wire = {}
         ELSE /\ handles = {}
              /\ Cardinality(forwards) = 1
              /\ \A i \in forwards :
                   /\ reg[i].op = "send_to"
                   /\ reg[i].bus = recvd[k].bus
                   /\ reg[i].src = f.src
                   /\ reg[i].dst = f.dst
                   /\ reg[i].req = request
              /\ Cardinality(wire) = 1
              /\ \A i \in wire :
                   /\ sent[i].bus = recvd[k].bus
                   /\ sent[i].src = f.src
                   /\ sent[i].dst = f.dst
                   /\ sent[i].data = f.msg

\* run() received a frame for somebody else and sent it on
C3_Witness ==
  /\ Len(recvd) = 1
  /\ recvd[1].by = "run"
  /\ recvd[1].frame.dst # identity
  /\ Len(sent) = 1
  /\ sent[1].by = "run"
  /\ calls = <<>>

\* where try_run_loop is inside `loop`
LoopPcs == {"poll", "drain", "handle_err"}

\* the callbacks of one kind among the last step's
CallsOf(cs, cb) == {i \in 1..Len(cs) : cs[i].cb = cb}

\* C4: every error run() returns is handed to handle_err, once and as it is;
\* when handle_err succeeds the loop makes another run() pass, and when it
\* fails try_run_loop returns that error and makes no further pass or
\* callback.
C4_HandleErrPerRunError ==
  /\ [](/\ (ret.op = "run" /\ IsErr(ret.res)) => (pc = "handle_err" /\ err = ret.res)
        /\ pc = "handle_err" => IsErr(err)
        /\ (ret.op = "run" /\ ~IsErr(ret.res)) => pc = "poll")
  /\ [][/\ (pc = "handle_err" /\ pc' # pc) =>
             /\ calls' = <<CallRecord("handle_err", None, None, NoRequest, err)>>
             /\ recvd' = <<>>
             /\ \/ pc' = "poll" /\ ret'.op = "handle_err" /\ ret'.res = Ok
                \/ pc' = "returned" /\ ret' = Returned("try_run_loop", HandlerError)
        /\ (pc # "handle_err" /\ calls' # calls) => CallsOf(calls', "handle_err") = {}
        /\ pc = "returned" => (pc' \notin LoopPcs /\ calls' \in {calls, <<>>}
                                /\ recvd' \in {recvd, <<>>})
       ]_vars

\* handle_err was given a decode error and let the loop go on
C4_Witness ==
  /\ pc = "poll"
  /\ ret.op = "handle_err"
  /\ Len(calls) = 1
  /\ calls[1].cb = "handle_err"
  /\ calls[1].err = DecodeError

\* C5 as claimed: try_run_loop returns only because a handle_err call failed.
C5_Original_OnlyHandleErrEnds ==
  ret.op = "try_run_loop" => (Len(calls) = 1 /\ calls[1].cb = "handle_err")

\* C5: try_run_loop returns only with an error, and only because on_ready
\* failed before the loop began or because handle_err failed; a failure of
\* poll, receive, decode, handle or a forwarding send never ends it.
C5_OnlyCallbackFailureEnds ==
  /\ pc = "returned" =>
       /\ ret.op = "try_run_loop"
       /\ IsErr(ret.res)
       /\ Len(calls) = 1
       /\ calls[1].cb \in {"on_ready", "handle_err"}
  /\ ret.op = "try_run_loop" => pc = "returned"
  /\ (ret.op = "run" /\ IsErr(ret.res)) => pc = "handle_err"

\* try_run_loop took a failed handle into handle_err instead of returning
C5_Witness ==
  /\ ret.op = "run"
  /\ ret.res = HandlerError
  /\ pc = "handle_err"
  /\ Len(calls) = 1
  /\ calls[1].cb = "handle"

\* C6: whenever the loop goes back to poll(), every bus the last poll()
\* reported has had its turn in the pass, whatever happened in the turns of
\* the others.
C6_Original_AllReadyDrained ==
  [][/\ (pc = "drain" /\ pc' = "poll") => ready' = {}
     /\ (pc = "handle_err" /\ pc' = "poll") => ready = {}]_vars

\* C7: on_ready is called once per try_run_loop, when every bus given to the
\* constructor is registered and before the loop's first poll(); no handle or
\* handle_err comes before it and the loop never calls it again.
C7_OnReadyOnceFirst ==
  /\ [](pc \in LoopPcs => service_bus = {})
  /\ [][/\ (calls' # calls /\ CallsOf(calls', "on_ready") # {}) =>
             /\ pc = "built"
             /\ service_bus = {}
             /\ Len(calls') = 1
             /\ pc' \in {"poll", "returned"}
        /\ (pc \notin LoopPcs /\ pc' \in LoopPcs) =>
             (pc = "built" /\ pc' = "poll" /\ CallsOf(calls', "on_ready") # {})
        /\ pc \in LoopPcs => pc' \in LoopPcs \cup {"returned", "panicked"}
        /\ pc \in {"returned", "panicked"} => pc' \notin LoopPcs \cup {"built", "with", "called"}
        /\ (pc \notin LoopPcs /\ calls' # calls) =>
             (CallsOf(calls', "handle") = {} /\ CallsOf(calls', "handle_err") = {})
        /\ (ret' # ret /\ ret'.op \in {"poll", "run"}) => pc \in LoopPcs
       ]_vars

\* the loop is about to poll for the first time, right after on_ready, with
\* two buses registered
C7_Witness ==
  /\ pc = "poll"
  /\ ret.op = "on_ready"
  /\ Len(calls) = 1
  /\ calls[1].cb = "on_ready"
  /\ Cardinality(DOMAIN senders) = 2

\* C8: a recv_poll that returns its list returns one (bus, source, request)
\* tuple for each registered bus that had a frame pending when it polled,
\* taken from that bus's oldest frame, and none for any other bus; no
\* recv_poll, failed or not, calls handle or sends anything, whatever the
\* destinations of the frames it receives.
C8_RecvPollOnePerReadyBus ==
  [][(pc = "built" /\ ret'.op = "recv_poll") =>
       /\ calls' = <<>>
       /\ sent' = <<>>
       /\ reg' = <<>>
       /\ senders' = senders
       /\ ret'.res = Ok =>
            /\ \A b \in BusId :
                 LET tuples == {i \in 1..Len(ret'.vec) : ret'.vec[i].bus = b}
                 IN IF b \in DOMAIN senders /\ inbox[b] # <<>>
                    THEN /\ Cardinality(tuples) = 1
                         /\ \A i \in tuples :
                              /\ ret'.vec[i].src = Head(inbox[b]).src
                              /\ Serialize(ret'.vec[i].req) = Head(inbox[b]).msg
                         /\ inbox'[b] = Tail(inbox[b])
                    ELSE /\ tuples = {}
                         /\ inbox'[b] = inbox[b]
            /\ ret'.vec # <<>>
     ]_vars

\* recv_poll returned two tuples, one of a frame addressed to somebody else
C8_Witness ==
  /\ ret.op = "recv_poll"
  /\ ret.res = Ok
  /\ Len(ret.vec) = 2
  /\ ret.vec[1].bus # ret.vec[2].bus
  /\ \E k \in 1..Len(recvd) : recvd[k].frame.dst # identity

\* C9: a registry send or set_identity on a bus id that is no key returns
\* UnknownBusId, reaches no session and leaves the registry as it was; on a
\* registered bus id it reaches the session of that bus and of no other.
C9_UnknownBusId ==
  /\ [](\A i \in 1..Len(reg) :
          IF reg[i].bus \notin DOMAIN senders
          THEN /\ reg[i].res = UnknownBusId(reg[i].bus)
               /\ sent = <<>>
               /\ bound = <<>>
          ELSE /\ reg[i].res.kind # "UnknownBusId"
               /\ reg[i].op = "send_to" =>
                    (Len(sent) = 1 /\ sent[1].bus = reg[i].bus /\ bound = <<>>)
               /\ reg[i].op = "set_identity" =>
                    (Len(bound) = 1 /\ bound[1].bus = reg[i].bus
                     /\ bound[1].addr = reg[i].addr /\ sent = <<>>))
  /\ [][(reg' # <<>> /\ <<reg', ret', pc'>> # <<reg, ret, pc>>) => senders' = senders]_vars

\* a handler called set_identity on a bus id that is not registered while
\* another bus is
C9_Witness ==
  /\ Len(reg) = 1
  /\ reg[1].op = "set_identity"
  /\ reg[1].bus \notin DOMAIN senders
  /\ DOMAIN senders # {}
  /\ reg[1].res.kind = "UnknownBusId"

\* C10: a send the transport fails returns Send(source, destination, ..)
\* with the caller's source and final destination, not the next hop, and the
\* registry (bus ids and stored routers) is as before the call.
C10_SendError ==
  /\ [](\A i \in 1..Len(sent) :
          ~sent[i].ok =>
            /\ Len(reg) = 1
            /\ reg[1].op = "send_to"
            /\ reg[1].res = SendError(reg[1].src, reg[1].dst)
            /\ sent[i].src = reg[1].src
            /\ sent[i].dst = reg[1].dst)
  /\ [][(sent' # <<>> /\ ~sent'[1].ok /\ <<sent', ret', pc'>> # <<sent, ret, pc>>) =>
          senders' = senders]_vars

\* a send through a router failed: the next hop was not the destination
C10_Witness ==
  /\ Len(sent) = 1
  /\ ~sent[1].ok
  /\ sent[1].hop # sent[1].dst
  /\ reg[1].res.kind = "Send"

\* C11: run_or_panic never returns to its caller: whatever try_run_loop
\* returns, an error or success, the wrapper panics with a message that
\* names the service it was given; the message of the error case carries the
\* error, the message of the success case says no error was reported.
C11_RunOrPanicAlwaysPanics ==
  /\ [](panic.outcome \in {"none", "panic"} /\ pc # "done")
  /\ [](pc = "panicked" => (panic.outcome = "panic" /\ panic.service \in ServiceName))
  /\ [][(pc = "returned" /\ pc' # pc) =>
          /\ pc' = "panicked"
          /\ IF IsErr(ret.res)
             THEN panic'.text = "run loop has failed with" /\ panic'.err = ret.res
             ELSE panic'.text = "has failed without reporting a error"]_vars

\* a try_run_loop returned success and the wrapper panicked all the same
C11_Witness ==
  /\ pc = "panicked"
  /\ panic.outcome = "panic"
  /\ panic.service = "peerd"
  /\ panic.text = "has failed without reporting a error"

\* C12: whenever the Controller's try_run_loop has returned, it has returned
\* an error; no run() result, handler outcome or poll result makes it return
\* success.
C12_NeverReturnsOk ==
  /\ ret.op = "try_run_loop" => IsErr(ret.res)
  /\ pc = "returned" => (ret.op = "try_run_loop" /\ IsErr(ret.res))
  /\ (ret.op = "run" /\ ~IsErr(ret.res)) => pc = "poll"

\* try_run_loop returned the failure of a handle_err that was given a send
\* error
C12_Witness ==
  /\ pc = "returned"
  /\ ret = Returned("try_run_loop", HandlerError)
  /\ Len(calls) = 1
  /\ calls[1].cb = "handle_err"
  /\ calls[1].err.kind = "Send"

\* C13: the local-or-forward decision of run() on a bus and the source of a
\* Controller::send_to on a bus are those of the identity the handler had
\* when that bus was registered, whatever Handler::identity returns by then.
C13_RegistrationIdentityDecides ==
  /\ \A k \in 1..Len(recvd) :
       (recvd[k].by = "run" /\ Unmarshall(recvd[k].frame.msg).ok) =>
         (CallsOf(calls, "handle") # {}
            <=> recvd[k].frame.dst = read_identity[recvd[k].bus])
  /\ \A i \in 1..Len(sent) :
       sent[i].by = "send_to" => sent[i].src = read_identity[sent[i].bus]

\* C14: Controller::with registers the supplied buses one at a time; the
\* first registration that fails ends it with that error and nothing is
\* registered afterwards; it yields a Controller only when no supplied bus is
\* left to register; a registration that fails, in with or in a later
\* add_service_bus, inserts no endpoint.
C14_WithStopsAtFirstFailure ==
  /\ []((ret.op = "with" /\ IsErr(ret.res)) => pc = "with_failed")
  /\ []((ret.op = "with" /\ ~IsErr(ret.res)) => (pc = "built" /\ service_bus = {}))
  /\ [](pc \in {"built", "called"} \cup LoopPcs => service_bus = {})
  /\ [][/\ pc = "with_failed" =>
             (pc' = pc /\ senders' = senders /\ service_bus' = service_bus)
        /\ (pc = "with" /\ pc' = "with_failed") =>
             (senders' = senders /\ service_bus' = service_bus /\ IsErr(ret'.res))
        /\ (pc = "with" /\ senders' # senders) =>
             \E id \in service_bus :
               /\ service_bus' = service_bus \ {id}
               /\ DOMAIN senders' = DOMAIN senders \cup {id}
               /\ \A b \in DOMAIN senders \ {id} : senders'[b] = senders[b]
               /\ ret'.op = "add_service_bus" /\ ret'.bus = id /\ ret'.res = Ok
        /\ (pc = "with" /\ pc' = "built") => (service_bus = {} /\ senders' = senders)
        /\ (ret'.op = "add_service_bus" /\ IsErr(ret'.res) /\ pc' # pc) =>
             senders' = senders
       ]_vars

\* the constructor registered one bus, failed on the next and stopped
C14_Witness ==
  /\ pc = "with_failed"
  /\ ret = Returned("with", TransportError)
  /\ Cardinality(DOMAIN senders) = 1
  /\ Cardinality(service_bus) = 1
  /\ service_bus \cap DOMAIN senders = {}

\* C15: a run() pass and a recv_poll take at most one frame from a bus: a
\* bus's queue loses its oldest frame or nothing, only a bus the poll
\* reported loses one, and in run() only at its one turn of the pass; what is
\* left keeps its order, and the next poll() reports every registered bus
\* that still has a frame.
C15_OneFramePerBusPerPass ==
  [][/\ pc \in LoopPcs =>
          \A b \in BusId :
            \/ inbox'[b] = inbox[b]
            \/ \E f \in Frame : inbox'[b] = Append(inbox[b], f)
            \/ /\ inbox[b] # <<>>
               /\ inbox'[b] = Tail(inbox[b])
               /\ pc = "drain"
               /\ b \in ready
               /\ ready' = ready \ {b}
     /\ (pc = "drain" /\ pc' = "drain") => ready' \subseteq ready
     /\ (pc = "built" /\ ret'.op = "recv_poll") =>
          \A b \in BusId :
            \/ inbox'[b] = inbox[b]
            \/ /\ b \in DOMAIN senders
               /\ inbox[b] # <<>>
               /\ inbox'[b] = Tail(inbox[b])
     /\ (pc = "poll" /\ pc' = "drain") =>
          \A b \in DOMAIN senders : inbox[b] # <<>> => b \in ready'
    ]_vars

\* a pass took one of the two frames pending on a bus and ended; the other
\* frame is still pending there
C15_Witness ==
  /\ pc = "poll"
  /\ ret.op = "run"
  /\ Len(recvd) = 1
  /\ recvd[1].by = "run"
  /\ Len(inbox[recvd[1].bus]) = 1
  /\ inbox[recvd[1].bus][1] # recvd[1].frame

\* bytes that are the encoding of no request
Undecodable(f) == \A r \in Request : Serialize(r) # f.msg

\* the frames of a queue that do not decode
UndecodableIn(queue) == Len(SelectSeq(queue, Undecodable))

\* C16: a frame run() received whose payload is the encoding of no request
\* is taken off its bus, is not given to handle and is not forwarded; run()
\* returns the decode error, handle_err is called with it once, and the bus
\* holds one undecodable frame fewer, so no later pass receives it again.
C16_DecodeFailureConsumed ==
  /\ [](\A k \in 1..Len(recvd) :
          (recvd[k].by = "run" /\ Undecodable(recvd[k].frame)) =>
            /\ calls = <<>>
            /\ sent = <<>>
            /\ reg = <<>>
            /\ ret = Returned("run", DecodeError)
            /\ err = DecodeError
            /\ pc = "handle_err")
  /\ [][/\ (pc = "drain" /\ recvd' # <<>> /\ recvd' # recvd
              /\ Undecodable(recvd'[1].frame)) =>
             LET b == recvd'[1].bus
             IN /\ Head(inbox[b]) = recvd'[1].frame
                /\ inbox' = [inbox EXCEPT ![b] = Tail(@)]
                /\ UndecodableIn(inbox'[b]) = UndecodableIn(inbox[b]) - 1
        /\ (pc = "handle_err" /\ err = DecodeError /\ pc' # pc) =>
             /\ calls' = <<CallRecord("handle_err", None, None, NoRequest, DecodeError)>>
             /\ err' = Ok
             /\ pc' \in {"poll", "returned"}
             /\ inbox' = inbox
        /\ (pc # "handle_err" /\ calls' # calls) => CallsOf(calls', "handle_err") = {}
       ]_vars

\* a frame that does not decode was received first in a pass over two ready
\* buses: the pass ended with the decode error, on its way to handle_err
C16_Witness ==
  /\ pc = "handle_err"
  /\ ret = Returned("run", DecodeError)
  /\ Len(recvd) = 1
  /\ recvd[1].frame.msg = Garbage
  /\ recvd[1].frame.dst = identity
  /\ ready # {}

\* C18: once the loop has started, no step changes the registry's bus ids or
\* the router stored for a bus, and the lookup of a bus id poll() returned
\* never fails.
C18_RegistryFixedInLoop ==
  [][/\ pc \in LoopPcs => senders' = senders
     /\ pc = "drain" => pc' # "panicked"]_vars

\* C19: a recv_poll that fails returns the error and no tuple; every frame it
\* had received by then, from the buses visited before the failure, is off
\* its session; the buses it had not reached keep their queues, and the only
\* other queue that can differ is that of the bus whose receive failed.
C19_RecvPollFailureDropsTuples ==
  [][(pc = "built" /\ ret'.op = "recv_poll" /\ IsErr(ret'.res)) =>
       LET visited == {recvd'[k].bus : k \in 1..Len(recvd')}
           changed == {b \in BusId \ visited : inbox'[b] # inbox[b]}
       IN /\ ret'.vec = <<>>
          /\ Cardinality(visited) = Len(recvd')
          /\ \A k \in 1..Len(recvd') :
               /\ recvd'[k].bus \in DOMAIN senders
               /\ inbox[recvd'[k].bus] # <<>>
               /\ recvd'[k].frame = Head(inbox[recvd'[k].bus])
               /\ inbox'[recvd'[k].bus] = Tail(inbox[recvd'[k].bus])
          /\ Cardinality(changed) <= 1
          /\ changed # {} => ret'.res = TransportError
          /\ \A b \in changed : inbox[b] # <<>> /\ inbox'[b] = Tail(inbox[b])
          /\ ret'.res = DecodeError =>
               (recvd' # <<>> /\ Undecodable(recvd'[Len(recvd')].frame))
          /\ \A k \in 1..Len(recvd') :
               (k < Len(recvd') \/ ret'.res # DecodeError) => ~Undecodable(recvd'[k].frame)
     ]_vars

\* recv_poll took a good frame from one bus, failed to decode the frame of
\* the next and returned the error alone; both frames are gone
C19_Witness ==
  /\ ret.op = "recv_poll"
  /\ ret.res = DecodeError
  /\ ret.vec = <<>>
  /\ Len(recvd) = 2
  /\ ~Undecodable(recvd[1].frame)
  /\ \A b \in BusId : inbox[b] = <<>>

\* the transport sends logged for the request from a to b carrying data, made
\* by `by`, and the handle calls logged for it on node n
RelaySent(by, a, b, data) ==
  {i \in 1..Len(relay.sent) :
     /\ relay.sent[i].by = by
     /\ relay.sent[i].src = a
     /\ relay.sent[i].dst = b
     /\ relay.sent[i].data = data}
RelayHandled(n, a, request) ==
  {i \in 1..Len(relay.handled) :
     /\ relay.handled[i].node = n
     /\ relay.handled[i].src = a
     /\ relay.handled[i].req = request}

\* C17: with A and B registered with router R and R registered with router R
\* (stored as none), a request A's Controller sends to B goes on the wire to
\* R, R's run() forwards it straight to B, and B's run() gives it to its
\* handler with source A: every send is forwarded at most once and handled at
\* most once, only by R and only at B; whenever nothing is pending every
\* request sent has been forwarded once and handled once, and again and
\* again nothing is pending.
C17_RelayedOnce ==
  /\ [](\A i \in 1..Len(relay.sent) :
          LET t == relay.sent[i]
          IN IF t.by = "send_to"
             THEN t.node = t.src /\ t.hop = relay.router
             ELSE t.node = relay.router /\ t.hop = t.dst /\ t.dst # relay.router)
  /\ [](\A i \in 1..Len(relay.handled) :
          /\ relay.handled[i].node # relay.router
          /\ relay.handled[i].src \notin {relay.router, relay.handled[i].node})
  /\ [](\A a, b \in Addr, request \in Request :
          LET S == Cardinality(RelaySent("send_to", a, b, Serialize(request)))
              F == Cardinality(RelaySent("run", a, b, Serialize(request)))
              H == Cardinality(RelayHandled(b, a, request))
          IN /\ H <= F
             /\ F <= S
             /\ (\A n \in Addr : relay.inbox[n] = <<>>) => (H = S /\ F = S))
  /\ []<>(\A n \in Addr : relay.inbox[n] = <<>>)

\* a request has gone from its sender over the router to the handler of its
\* destination, and nothing is pending
C17_Witness ==
  /\ pc = "relay"
  /\ Len(relay.sent) = 2
  /\ relay.sent[1].by = "send_to"
  /\ relay.sent[1].hop = relay.router
  /\ relay.sent[2].by = "run"
  /\ relay.sent[2].node = relay.router
  /\ relay.sent[2].hop = relay.sent[1].dst
  /\ Len(relay.handled) = 1
  /\ relay.handled[1].node = relay.sent[1].dst
  /\ relay.handled[1].src = relay.sent[1].src
  /\ \A n \in Addr : relay.inbox[n] = <<>>

====
